---- MODULE Spec2Model ----
(***************************************************************************)
(* A model of the api_sports_io_nfl client (class ApiNfl).                 *)
(*                                                                         *)
(* A call of an operation validates and normalises its arguments into the  *)
(* query map `params`, hands the map to get(), which sends one HTTP GET,   *)
(* and returns the `response` field of the decoded body.  The model keeps  *)
(* the client's configuration, the call in progress (operation, arguments, *)
(* query map, requests sent) and its outcome.                              *)
(*                                                                         *)
(* Python values are records tagged by type: None, int, str (a sequence of *)
(* one-character strings), bool, list, datetime and Enum members.          *)
(*                                                                         *)
(* memo is a history variable: what the caller has seen of the first call  *)
(* of a few chosen calls (its validation error, or the query map it sent), *)
(* kept to compare a later call with the same arguments against it.  No    *)
(* operation reads it.                                                     *)
(***************************************************************************)
EXTENDS Integers, Sequences, FiniteSets, TLC

VARIABLES api_key, api_host, self_timezone, pc, op, args, params, sent, resp, outcome,
          memo

vars == <<api_key, api_host, self_timezone, pc, op, args, params, sent, resp, outcome, memo>>

(***************************************************************************)
(* Bounds of the model.                                                    *)
(***************************************************************************)
\* integer identifiers are drawn from 1..MaxId, as ints and as decimal strings
MaxId == 1
\* search terms are the strings of 0..MaxSearchLen letters
MaxSearchLen == 3

(***************************************************************************)
(* Python values.                                                          *)
(***************************************************************************)
None == [t |-> "none"]
PyIntV(n) == [t |-> "int", i |-> n]
PyStr(chars) == [t |-> "str", s |-> chars]
PyBool(b) == [t |-> "bool", b |-> b]
\* the list [7], the representative of a type that int() rejects with TypeError
PyList == [t |-> "list"]
\* a datetime.datetime instance, kept as its year, month and day
PyDatetime(y, m, d) == [t |-> "datetime", y |-> y, m |-> m, d |-> d]
\* a member of one of the Enum classes of ApiNfl, with its .value
\* (cls and name are character sequences, as str(member) is "cls.name")
PyEnum(cls, name, value) == [t |-> "enum", cls |-> cls, e |-> name, value |-> value]

Digits == <<"0", "1", "2", "3", "4", "5", "6", "7", "8", "9">>

IsDigit(c) == \E k \in 1..10 : Digits[k] = c

DigitVal(c) == (CHOOSE k \in 1..10 : Digits[k] = c) - 1

RECURSIVE NatToStr(_)
NatToStr(n) == IF n < 10 THEN <<Digits[n + 1]>>
               ELSE NatToStr(n \div 10) \o <<Digits[(n % 10) + 1]>>

\* a month or day number as two digits (strftime %m, %d)
Pad2(n) == IF n < 10 THEN <<"0">> \o NatToStr(n) ELSE NatToStr(n)

\* str(n) of an int
IntToStr(n) == IF n < 0 THEN <<"-">> \o NatToStr(0 - n) ELSE NatToStr(n)

RECURSIVE Repeat(_, _)
Repeat(c, n) == IF n = 0 THEN <<>> ELSE <<c>> \o Repeat(c, n - 1)

RECURSIVE StripLeft(_)
StripLeft(s) == IF s # <<>> /\ Head(s) = " " THEN StripLeft(Tail(s)) ELSE s

RECURSIVE StripRight(_)
StripRight(s) == IF s # <<>> /\ s[Len(s)] = " " THEN StripRight(SubSeq(s, 1, Len(s) - 1)) ELSE s

\* the digits of an int literal: digits with single underscores between them
RECURSIVE IsDigitGroup(_)
IsDigitGroup(s) ==
    IF s = <<>> THEN FALSE
    ELSE IF ~IsDigit(Head(s)) THEN FALSE
    ELSE IF Len(s) = 1 THEN TRUE
    ELSE IF s[2] = "_" THEN IsDigitGroup(SubSeq(s, 3, Len(s)))
    ELSE IsDigitGroup(Tail(s))

RECURSIVE DigitsValue(_, _)
DigitsValue(s, acc) ==
    IF s = <<>> THEN acc
    ELSE IF Head(s) = "_" THEN DigitsValue(Tail(s), acc)
    ELSE DigitsValue(Tail(s), 10 * acc + DigitVal(Head(s)))

\* int(s) of a str: surrounding blanks, an optional sign, a group of digits
ParseInt(chars) ==
    LET s == StripRight(StripLeft(chars))
        signed == s # <<>> /\ Head(s) \in {"+", "-"}
        body == IF signed THEN Tail(s) ELSE s
    IN  IF IsDigitGroup(body)
        THEN [ok |-> TRUE,
              val |-> IF signed /\ Head(s) = "-" THEN 0 - DigitsValue(body, 0)
                      ELSE DigitsValue(body, 0)]
        ELSE [ok |-> FALSE, val |-> 0]

NoExc == ""

\* int(v): the converted value, or the exception class that int() raises
PyInt(v) ==
    CASE v.t = "int" -> [exc |-> NoExc, val |-> v.i]
      [] v.t = "bool" -> [exc |-> NoExc, val |-> IF v.b THEN 1 ELSE 0]
      [] v.t = "str" -> IF ParseInt(v.s).ok
                        THEN [exc |-> NoExc, val |-> ParseInt(v.s).val]
                        ELSE [exc |-> "ValueError", val |-> 0]
      [] OTHER -> [exc |-> "TypeError", val |-> 0]

\* str(v)
PyStrOf(v) ==
    CASE v.t = "int" -> IntToStr(v.i)
      [] v.t = "str" -> v.s
      [] v.t = "bool" -> IF v.b THEN <<"T", "r", "u", "e">> ELSE <<"F", "a", "l", "s", "e">>
      [] v.t = "none" -> <<"N", "o", "n", "e">>
      [] v.t = "list" -> <<"[", "7", "]">>
      [] v.t = "enum" -> v.cls \o <<".">> \o v.e
      [] OTHER -> IntToStr(v.y) \o <<"-">> \o Pad2(v.m) \o <<"-">> \o Pad2(v.d)
                  \o <<" ", "0", "0", ":", "0", "0", ":", "0", "0">>

\* "try: x = x.value / except AttributeError: pass"
Unwrap(v) == IF v.t = "enum" THEN v.value ELSE v

(***************************************************************************)
(* Frames: the local state of one running operation.  v holds the local    *)
(* variables (the arguments, rebound as the code rebinds them), params the *)
(* query map, met the flag min_arguments_met, exc/msg the exception raised *)
(* so far (NoExc while the body is still running), sent the requests that  *)
(* the body has handed to requests.get.  Every step leaves a frame that    *)
(* has raised unchanged: the statements after a raise do not run.          *)
(***************************************************************************)
Enter(a) == [v |-> a, params |-> <<>>, met |-> FALSE, exc |-> NoExc, msg |-> "", sent |-> <<>>]

Running(f) == f.exc = NoExc

\* raise cls(msg)
Raise(f, cls, msg) == IF Running(f) THEN [f EXCEPT !.exc = cls, !.msg = msg] ELSE f

\* params[key] = value
SetParam(f, key, value) == IF Running(f) THEN [f EXCEPT !.params = (key :> value) @@ @] ELSE f

\* params[name] = name (the local variable of that name)
SetLocalParam(f, name) == SetParam(f, name, f.v[name])

\* name = value
Bind(f, name, value) == IF Running(f) THEN [f EXCEPT !.v[name] = value] ELSE f

\* min_arguments_met = True
Met(f) == IF Running(f) THEN [f EXCEPT !.met = TRUE] ELSE f

TypeErrorMsg == "int() argument must be a string, a bytes-like object or a real number"

\* try: name = int(name) / except ValueError: raise ValueError(msg)
Coerce(f, name, msg) ==
    LET r == PyInt(f.v[name])
    IN  IF r.exc = NoExc THEN Bind(f, name, PyIntV(r.val))
        ELSE IF r.exc = "ValueError" THEN Raise(f, "ValueError", msg)
        ELSE Raise(f, r.exc, TypeErrorMsg)

\* _clean_season without the check of the length of str(season)
clean_season_NoLength(season) ==
    LET r == PyInt(season)
    IN  IF r.exc = "ValueError"
        THEN [exc |-> "ValueError", msg |-> "season must be a valid year", val |-> None]
        ELSE IF r.exc # NoExc THEN [exc |-> r.exc, msg |-> TypeErrorMsg, val |-> None]
        ELSE [exc |-> NoExc, msg |-> "", val |-> PyIntV(r.val)]

\* _clean_season(season): the exception raised, or the returned int
clean_season(season) ==
    LET r == PyInt(season)
    IN  IF Len(PyStrOf(season)) # 4
        THEN [exc |-> "ValueError", msg |-> "season must be a valid year", val |-> None]
        ELSE IF r.exc = "ValueError"
        THEN [exc |-> "ValueError", msg |-> "season must be a valid year", val |-> None]
        ELSE IF r.exc # NoExc THEN [exc |-> r.exc, msg |-> TypeErrorMsg, val |-> None]
        ELSE [exc |-> NoExc, msg |-> "", val |-> PyIntV(r.val)]

\* _clean_league without the check of the membership in [1, 2]
clean_league_NoMembership(league) ==
    LET r == PyInt(Unwrap(league))
    IN  IF r.exc = "ValueError"
        THEN [exc |-> "ValueError", msg |-> "league must be an integer", val |-> None]
        ELSE IF r.exc # NoExc THEN [exc |-> r.exc, msg |-> TypeErrorMsg, val |-> None]
        ELSE [exc |-> NoExc, msg |-> "", val |-> PyIntV(r.val)]

\* _clean_league(league): the exception raised, or the returned int
clean_league(league) ==
    LET r == PyInt(Unwrap(league))
    IN  IF r.exc = "ValueError"
        THEN [exc |-> "ValueError", msg |-> "league must be an integer", val |-> None]
        ELSE IF r.exc # NoExc THEN [exc |-> r.exc, msg |-> TypeErrorMsg, val |-> None]
        ELSE IF r.val \notin {1, 2}
        THEN [exc |-> "ValueError",
              msg |-> "league must be a valid league: 1 for NFL, 2 for NCAA", val |-> None]
        ELSE [exc |-> NoExc, msg |-> "", val |-> PyIntV(r.val)]

\* name = <call>, where r is the result of the call: rebinds name, or
\* propagates the exception that the call raised
Assign(f, name, r) == IF r.exc = NoExc THEN Bind(f, name, r.val) ELSE Raise(f, r.exc, r.msg)

ENDPOINTS ==
    [status |-> "/status", timezone |-> "/timezone", seasons |-> "/seasons",
     leagues |-> "/leagues", teams |-> "/teams", players |-> "/players",
     players_statistics |-> "/players/statistics", injuries |-> "/injuries",
     games |-> "/games", games_events |-> "/games/events",
     games_teams_statistics |-> "/games/statistics/teams",
     games_players_statistics |-> "/games/statistics/players",
     standings |-> "/standings", standings_conferences |-> "/standings/conferences",
     standings_divisions |-> "/standings/divisions", odds |-> "/odds",
     odds_bets |-> "/odds/bets", odds_bookmakers |-> "/odds/bookmakers"]

\* the client object
Self == [protocol |-> "https://", api_key |-> api_key, api_host |-> api_host,
         timezone |-> self_timezone]

get_default_headers(self) ==
    [x_rapidapi_host |-> self.api_host, x_rapidapi_key |-> self.api_key]

\* url = urljoin(...); resp = self.get(url, params=params): the first half
\* of get, up to the moment requests.get has sent the request
get(self, name, f) ==
    IF Running(f)
    THEN [f EXCEPT !.sent = Append(@, [url |-> [base |-> self.protocol \o self.api_host,
                                                path |-> ENDPOINTS[name]],
                                       params |-> f.params,
                                       headers |-> get_default_headers(self)])]
    ELSE f

\* len(v): the length, or the exception class that len() raises
PyLen(v) ==
    CASE v.t = "str" -> [exc |-> NoExc, val |-> Len(v.s)]
      [] v.t = "list" -> [exc |-> NoExc, val |-> 1]
      [] OTHER -> [exc |-> "TypeError", val |-> 0]

\* the check of search with a minimum of 2 characters
CheckSearch_AtLeast2(f) ==
    LET n == PyLen(f.v.search)
    IN  IF n.exc # NoExc THEN Raise(f, n.exc, "object has no len()")
        ELSE IF n.val < 2 THEN Raise(f, "ValueError", "search must be at least 3 characters")
        ELSE f

\* if len(search) < 3: raise ValueError("search must be at least 3 characters")
CheckSearch(f) ==
    LET n == PyLen(f.v.search)
    IN  IF n.exc # NoExc THEN Raise(f, n.exc, "object has no len()")
        ELSE IF n.val < 3 THEN Raise(f, "ValueError", "search must be at least 3 characters")
        ELSE f

\* if not min_arguments_met: raise ValueError(msg)
CheckMet(f, msg) == IF ~f.met THEN Raise(f, "ValueError", msg) ELSE f

STR_true == PyStr(<<"t", "r", "u", "e">>)
STR_false == PyStr(<<"f", "a", "l", "s", "e">>)
STR_all == PyStr(<<"a", "l", "l">>)

\* type(v) is not bool and v not in ["true", "false"]
NotBoolean(v) == v.t # "bool" /\ v \notin {STR_true, STR_false}

\* s.split(sep): the tokens of the character sequence s
RECURSIVE Split(_, _)
Split(s, sep) ==
    IF \A k \in 1..Len(s) : s[k] # sep THEN <<s>>
    ELSE LET k == CHOOSE j \in 1..Len(s) : s[j] = sep /\ \A i \in 1..(j - 1) : s[i] # sep
         IN  <<SubSeq(s, 1, k - 1)>> \o Split(SubSeq(s, k + 1, Len(s)), sep)

AllDigits(s) == s # <<>> /\ \A k \in 1..Len(s) : IsDigit(s[k])

IsLeap(y) == (y % 4 = 0 /\ y % 100 # 0) \/ y % 400 = 0

DaysInMonth(y, m) ==
    IF m = 2 THEN (IF IsLeap(y) THEN 29 ELSE 28)
    ELSE IF m \in {4, 6, 9, 11} THEN 30 ELSE 31

\* datetime.strptime(s, "%Y-%m-%d") succeeds: four digits of year, one or two
\* of month and of day (the day may be a blank and a digit), a real date
StrptimeOk(s) ==
    LET tok == Split(s, "-")
    IN  /\ Len(tok) = 3
        /\ Len(tok[1]) = 4 /\ AllDigits(tok[1]) /\ DigitsValue(tok[1], 0) >= 1
        /\ Len(tok[2]) \in {1, 2} /\ AllDigits(tok[2]) /\ DigitsValue(tok[2], 0) \in 1..12
        /\ LET d == IF Len(tok[3]) = 2 /\ tok[3][1] = " " THEN <<tok[3][2]>> ELSE tok[3]
           IN  /\ Len(d) \in {1, 2} /\ AllDigits(d)
               /\ DigitsValue(d, 0) \in 1..DaysInMonth(DigitsValue(tok[1], 0), DigitsValue(tok[2], 0))

\* date.strftime("%Y-%m-%d")
Strftime(d) ==
    PyStr(Repeat("0", 4 - Len(NatToStr(d.y))) \o NatToStr(d.y) \o <<"-">> \o Pad2(d.m)
          \o <<"-">> \o Pad2(d.d))

(***************************************************************************)
(* The Enum classes of ApiNfl.                                             *)
(***************************************************************************)
Leagues ==
    [NFL |-> PyEnum(<<"L", "e", "a", "g", "u", "e", "s">>, <<"N", "F", "L">>, PyIntV(1)),
     NCAA |-> PyEnum(<<"L", "e", "a", "g", "u", "e", "s">>, <<"N", "C", "A", "A">>, PyIntV(2))]

PlayersStatisticsGroups ==
    [DEFENSIVE |-> PyEnum(<<"P", "l", "a", "y", "e", "r", "s", "S", "t", "a", "t", "i", "s", "t", "i", "c", "s", "G", "r", "o", "u", "p", "s">>,
         <<"D", "E", "F", "E", "N", "S", "I", "V", "E">>,
         PyStr(<<"d", "e", "f", "e", "n", "s", "i", "v", "e">>)),
     FUMBLES |-> PyEnum(<<"P", "l", "a", "y", "e", "r", "s", "S", "t", "a", "t", "i", "s", "t", "i", "c", "s", "G", "r", "o", "u", "p", "s">>,
         <<"F", "U", "M", "B", "L", "E", "S">>,
         PyStr(<<"f", "u", "m", "b", "l", "e", "s">>)),
     INTERCEPTIONS |-> PyEnum(<<"P", "l", "a", "y", "e", "r", "s", "S", "t", "a", "t", "i", "s", "t", "i", "c", "s", "G", "r", "o", "u", "p", "s">>,
         <<"I", "N", "T", "E", "R", "C", "E", "P", "T", "I", "O", "N", "S">>,
         PyStr(<<"i", "n", "t", "e", "r", "c", "e", "p", "t", "i", "o", "n", "s">>)),
     KICK_RETURNS |-> PyEnum(<<"P", "l", "a", "y", "e", "r", "s", "S", "t", "a", "t", "i", "s", "t", "i", "c", "s", "G", "r", "o", "u", "p", "s">>,
         <<"K", "I", "C", "K", "_", "R", "E", "T", "U", "R", "N", "S">>,
         PyStr(<<"k", "i", "c", "k", "_", "r", "e", "t", "u", "r", "n", "s">>)),
     KICKING |-> PyEnum(<<"P", "l", "a", "y", "e", "r", "s", "S", "t", "a", "t", "i", "s", "t", "i", "c", "s", "G", "r", "o", "u", "p", "s">>,
         <<"K", "I", "C", "K", "I", "N", "G">>,
         PyStr(<<"k", "i", "c", "k", "i", "n", "g">>)),
     PASSING |-> PyEnum(<<"P", "l", "a", "y", "e", "r", "s", "S", "t", "a", "t", "i", "s", "t", "i", "c", "s", "G", "r", "o", "u", "p", "s">>,
         <<"P", "A", "S", "S", "I", "N", "G">>,
         PyStr(<<"p", "a", "s", "s", "i", "n", "g">>)),
     PUNT_RETURNS |-> PyEnum(<<"P", "l", "a", "y", "e", "r", "s", "S", "t", "a", "t", "i", "s", "t", "i", "c", "s", "G", "r", "o", "u", "p", "s">>,
         <<"P", "U", "N", "T", "_", "R", "E", "T", "U", "R", "N", "S">>,
         PyStr(<<"p", "u", "n", "t", "_", "r", "e", "t", "u", "r", "n", "s">>)),
     PUNTING |-> PyEnum(<<"P", "l", "a", "y", "e", "r", "s", "S", "t", "a", "t", "i", "s", "t", "i", "c", "s", "G", "r", "o", "u", "p", "s">>,
         <<"P", "U", "N", "T", "I", "N", "G">>,
         PyStr(<<"p", "u", "n", "t", "i", "n", "g">>)),
     RECEIVING |-> PyEnum(<<"P", "l", "a", "y", "e", "r", "s", "S", "t", "a", "t", "i", "s", "t", "i", "c", "s", "G", "r", "o", "u", "p", "s">>,
         <<"R", "E", "C", "E", "I", "V", "I", "N", "G">>,
         PyStr(<<"r", "e", "c", "e", "i", "v", "i", "n", "g">>)),
     RUSHING |-> PyEnum(<<"P", "l", "a", "y", "e", "r", "s", "S", "t", "a", "t", "i", "s", "t", "i", "c", "s", "G", "r", "o", "u", "p", "s">>,
         <<"R", "U", "S", "H", "I", "N", "G">>,
         PyStr(<<"r", "u", "s", "h", "i", "n", "g">>))]

Conferences ==
    [AFC |-> PyEnum(<<"C", "o", "n", "f", "e", "r", "e", "n", "c", "e", "s">>, <<"A", "F", "C">>,
         PyStr(<<"A", "m", "e", "r", "i", "c", "a", "n", " ", "F", "o", "o", "t", "b", "a", "l", "l", " ", "C", "o", "n", "f", "e", "r", "e", "n", "c", "e">>)),
     NFC |-> PyEnum(<<"C", "o", "n", "f", "e", "r", "e", "n", "c", "e", "s">>, <<"N", "F", "C">>,
         PyStr(<<"N", "a", "t", "i", "o", "n", "a", "l", " ", "F", "o", "o", "t", "b", "a", "l", "l", " ", "C", "o", "n", "f", "e", "r", "e", "n", "c", "e">>))]

Divisions ==
    [NORTH |-> PyEnum(<<"D", "i", "v", "i", "s", "i", "o", "n", "s">>, <<"N", "O", "R", "T", "H">>, PyStr(<<"N", "o", "r", "t", "h">>)),
     SOUTH |-> PyEnum(<<"D", "i", "v", "i", "s", "i", "o", "n", "s">>, <<"S", "O", "U", "T", "H">>, PyStr(<<"S", "o", "u", "t", "h">>)),
     EAST |-> PyEnum(<<"D", "i", "v", "i", "s", "i", "o", "n", "s">>, <<"E", "A", "S", "T">>, PyStr(<<"E", "a", "s", "t">>)),
     WEST |-> PyEnum(<<"D", "i", "v", "i", "s", "i", "o", "n", "s">>, <<"W", "E", "S", "T">>, PyStr(<<"W", "e", "s", "t">>))]

\* [x.value for x in cls]
Values(cls) == {cls[k].value : k \in DOMAIN cls}

\* the block of an enumerated argument without the check of membership
EnumBlock_NoMembership(f, name, cls, msg) ==
    SetLocalParam(Bind(f, name, Unwrap(f.v[name])), name)

\* the block of an enumerated argument: unwrap it, check it against the
\* values of cls, put it into the query map
EnumBlock(f, name, cls, msg) ==
    LET g == Bind(f, name, Unwrap(f.v[name]))
        h == IF g.v[name] \notin Values(cls) THEN Raise(g, "ValueError", msg) ELSE g
    IN  SetLocalParam(h, name)

(***************************************************************************)
(* The operations.  The body of a method is a chain of blocks, one per     *)
(* "if <argument> is not None:" statement, each a step from frame to       *)
(* frame; the definition named after the method is its body up to and      *)
(* including the call of get.                                              *)
(***************************************************************************)
\* the frame after block F has run in frame x
Step(x, F(_)) == CHOOSE r \in {F(y) : y \in {x}} : TRUE

status(self, a) ==
    get(self, "status", Enter(a))

timezone(self, a) ==
    get(self, "timezone", Enter(a))

seasons(self, a) ==
    get(self, "seasons", Enter(a))

leagues_id(f) ==
    IF f.v.id # None
    THEN LET g == Coerce(Bind(f, "id", Unwrap(f.v.id)), "id", "id must be an integer")
             h == IF g.v.id.t = "int" /\ g.v.id.i \notin {1, 2}
                  THEN Raise(g, "ValueError", "id must be a valid league: 1 for NFL, 2 for NCAA")
                  ELSE g
         IN  SetLocalParam(h, "id")
    ELSE f

leagues_season(f) ==
    IF f.v.season # None
    THEN SetLocalParam(Assign(f, "season", clean_season(f.v.season)), "season")
    ELSE f

leagues_current(f) ==
    IF f.v.current # None
    THEN LET g == IF NotBoolean(f.v.current)
                  THEN Raise(f, "ValueError", "current must be a boolean value")
                  ELSE f
         IN  SetLocalParam(g, "current")
    ELSE f

leagues(self, a) ==
    get(self, "leagues",
        Step(Step(Step(Enter(a),
             leagues_id),
             leagues_season),
             leagues_current))

teams_id(f) ==
    IF f.v.id # None
    THEN Met(SetLocalParam(Coerce(f, "id", "id must be an integer"), "id"))
    ELSE f

\* the league block of teams without the check of season
teams_league_NoSeasonCheck(f) ==
    IF f.v.league # None
    THEN Met(SetLocalParam(Assign(f, "league", clean_league(f.v.league)), "league"))
    ELSE f

teams_league(f) ==
    IF f.v.league # None
    THEN LET g == Assign(f, "league", clean_league(f.v.league))
             h == IF g.v.season = None
                  THEN Raise(g, "ValueError", "season must be provided if league is provided")
                  ELSE g
         IN  Met(SetLocalParam(h, "league"))
    ELSE f

\* the season block of teams without the entry of the query map
teams_season_NotInQuery(f) ==
    IF f.v.season # None
    THEN LET g == Assign(f, "season", clean_season(f.v.season))
             h == IF g.v.league = None
                  THEN Raise(g, "ValueError", "league must be provided if season is provided")
                  ELSE g
         IN  Met(h)
    ELSE f

teams_season(f) ==
    IF f.v.season # None
    THEN LET g == SetLocalParam(Assign(f, "season", clean_season(f.v.season)), "season")
             h == IF g.v.league = None
                  THEN Raise(g, "ValueError", "league must be provided if season is provided")
                  ELSE g
         IN  Met(h)
    ELSE f

teams_name(f) == IF f.v.name # None THEN Met(SetLocalParam(f, "name")) ELSE f

teams_code(f) == IF f.v.code # None THEN Met(SetLocalParam(f, "code")) ELSE f

teams_search(f) ==
    IF f.v.search # None
    THEN Met(SetLocalParam(CheckSearch(f), "search"))
    ELSE f

\* teams without the "at least one of" check
teams_min_arguments_Skipped(f) == f

teams_min_arguments(f) ==
    CheckMet(f, "Must provide at least one of: id, league, season, name, code, search")

teams(self, a) ==
    get(self, "teams",
        Step(Step(Step(Step(Step(Step(Step(Enter(a),
             teams_id),
             teams_league),
             teams_season),
             teams_name),
             teams_code),
             teams_search),
             teams_min_arguments))

players_id(f) ==
    IF f.v.id # None
    THEN Met(SetLocalParam(Coerce(f, "id", "id must be an integer"), "id"))
    ELSE f

players_name(f) == IF f.v.name # None THEN Met(SetLocalParam(f, "name")) ELSE f

players_team(f) ==
    IF f.v.team # None
    THEN LET g == Coerce(f, "team", "team must be an integer")
             h == IF g.v.season = None
                  THEN Raise(g, "ValueError", "season must be provided if team is provided")
                  ELSE g
         IN  Met(SetLocalParam(h, "team"))
    ELSE f

\* the season block of players without the check of team
players_season_NoTeamCheck(f) ==
    IF f.v.season # None
    THEN Met(SetLocalParam(Assign(f, "season", clean_season(f.v.season)), "season"))
    ELSE f

players_season(f) ==
    IF f.v.season # None
    THEN LET g == Assign(f, "season", clean_season(f.v.season))
             h == IF g.v.team = None
                  THEN Raise(g, "ValueError", "team must be provided if season is provided")
                  ELSE g
         IN  Met(SetLocalParam(h, "season"))
    ELSE f

players_search(f) ==
    IF f.v.search # None
    THEN Met(SetLocalParam(CheckSearch(f), "search"))
    ELSE f

players_min_arguments(f) ==
    CheckMet(f, "Must provide at least one of: id, name, team, season, search")

players(self, a) ==
    get(self, "players",
        Step(Step(Step(Step(Step(Step(Enter(a),
             players_id),
             players_name),
             players_team),
             players_season),
             players_search),
             players_min_arguments))

\* the id block of players_statistics without the check of team and season
players_statistics_id_NoCheck(f) ==
    IF f.v.id # None
    THEN Met(SetLocalParam(Coerce(f, "id", "id must be an integer"), "id"))
    ELSE f

players_statistics_id(f) ==
    IF f.v.id # None
    THEN LET g == SetLocalParam(Coerce(f, "id", "id must be an integer"), "id")
             h == IF g.v.team = None /\ g.v.season = None
                  THEN Raise(g, "ValueError", "team or season must be provided if id is provided")
                  ELSE g
         IN  Met(h)
    ELSE f

players_statistics_team(f) ==
    IF f.v.team # None
    THEN LET g == Coerce(f, "team", "team must be an integer")
             h == IF g.v.season = None
                  THEN Raise(g, "ValueError", "season must be provided if team is provided")
                  ELSE g
         IN  Met(SetLocalParam(h, "team"))
    ELSE f

players_statistics_season(f) ==
    IF f.v.season # None
    THEN LET g == Assign(f, "season", clean_season(f.v.season))
             h == IF g.v.team = None /\ g.v.id = None
                  THEN Raise(g, "ValueError", "id or team must be provided if season is provided")
                  ELSE g
         IN  Met(SetLocalParam(h, "season"))
    ELSE f

players_statistics_min_arguments(f) ==
    CheckMet(f, "Must provide at least one of: id, team, season")

players_statistics(self, a) ==
    get(self, "players_statistics",
        Step(Step(Step(Step(Enter(a),
             players_statistics_id),
             players_statistics_team),
             players_statistics_season),
             players_statistics_min_arguments))

injuries_player(f) ==
    IF f.v.player # None
    THEN Met(SetLocalParam(Coerce(f, "player", "player must be an integer"), "player"))
    ELSE f

injuries_team(f) ==
    IF f.v.team # None
    THEN Met(SetLocalParam(Coerce(f, "team", "team must be an integer"), "team"))
    ELSE f

injuries_min_arguments(f) ==
    CheckMet(f, "Must provide at least one of: player, team")

injuries(self, a) ==
    get(self, "injuries",
        Step(Step(Step(Enter(a),
             injuries_player),
             injuries_team),
             injuries_min_arguments))

games_id(f) ==
    IF f.v.id # None
    THEN Met(SetLocalParam(Coerce(f, "id", "id must be an integer"), "id"))
    ELSE f

games_date(f) ==
    IF f.v.date # None
    THEN LET msg == "date must be a valid date in YYYY-MM-DD format"
             g == IF f.v.date.t = "str"
                  THEN (IF StrptimeOk(f.v.date.s) THEN f ELSE Raise(f, "ValueError", msg))
                  ELSE IF f.v.date.t = "datetime" THEN Bind(f, "date", Strftime(f.v.date))
                  ELSE Raise(f, "ValueError", msg)
         IN  Met(SetLocalParam(g, "date"))
    ELSE f

games_league(f) ==
    IF f.v.league # None
    THEN LET g == Assign(f, "league", clean_league(f.v.league))
             h == IF g.v.season = None
                  THEN Raise(g, "ValueError", "season must be provided if league is provided")
                  ELSE g
         IN  Met(SetLocalParam(h, "league"))
    ELSE f

\* the season block of games without the check of the other arguments
games_season_NoCheck(f) ==
    IF f.v.season # None
    THEN Met(SetLocalParam(Assign(f, "season", clean_season(f.v.season)), "season"))
    ELSE f

games_season(f) ==
    IF f.v.season # None
    THEN LET g == SetLocalParam(Assign(f, "season", clean_season(f.v.season)), "season")
             h == IF /\ g.v.id = None /\ g.v.league = None /\ g.v.team = None
                     /\ g.v.date = None /\ g.v.h2h = None /\ g.v.live = None
                  THEN Raise(g, "ValueError",
                             "one of id, league, team, date, h2h, or live must be provided if season is provided")
                  ELSE g
         IN  Met(h)
    ELSE f

\* the team block of games without the check of season
games_team_NoSeasonCheck(f) ==
    IF f.v.team # None
    THEN Met(SetLocalParam(Coerce(f, "team", "team must be an integer"), "team"))
    ELSE f

games_team(f) ==
    IF f.v.team # None
    THEN LET g == Coerce(f, "team", "team must be an integer")
             h == IF g.v.season = None
                  THEN Raise(g, "ValueError", "season must be provided if team is provided")
                  ELSE g
         IN  Met(SetLocalParam(h, "team"))
    ELSE f

\* the h2h block of games with the count of the tokens as its only check
games_h2h_CountOnly(f) ==
    IF f.v.h2h # None
    THEN LET msg == "h2h must be two team IDs separated by a dash (e.g. 1-2)"
             g == IF f.v.h2h.t # "str"
                  THEN Raise(f, "AttributeError", "object has no attribute 'split'")
                  ELSE IF Len(Split(f.v.h2h.s, "-")) # 2 THEN Raise(f, "ValueError", msg)
                  ELSE f
         IN  Met(SetLocalParam(g, "h2h"))
    ELSE f

games_h2h(f) ==
    IF f.v.h2h # None
    THEN LET msg == "h2h must be two team IDs separated by a dash (e.g. 1-2)"
             g == IF f.v.h2h.t # "str"
                  THEN Raise(f, "AttributeError", "object has no attribute 'split'")
                  ELSE LET split_h2h == Split(f.v.h2h.s, "-")
                       IN  IF Len(split_h2h) # 2 THEN Raise(f, "ValueError", msg)
                           ELSE IF \E k \in 1..2 : ~ParseInt(split_h2h[k]).ok
                           THEN Raise(f, "ValueError", msg)
                           ELSE f
         IN  Met(SetLocalParam(g, "h2h"))
    ELSE f

games_live(f) ==
    IF f.v.live # None
    THEN LET g == IF NotBoolean(f.v.live)
                  THEN Raise(f, "ValueError", "live must be a boolean value")
                  ELSE f
             h == IF g.v.live = STR_true \/ g.v.live = PyBool(TRUE)
                  THEN SetParam(Bind(g, "live", STR_all), "live", STR_all)
                  ELSE SetParam(Bind(g, "live", None), "live", None)
         IN  IF h.v.live # None THEN Met(h) ELSE h
    ELSE f

\* the timezone block of games without the default of the client
games_timezone_NoDefault(self, f) ==
    IF f.v.timezone # None
    THEN SetLocalParam(f, "timezone")
    ELSE f

games_timezone(self, f) ==
    IF f.v.timezone # None
    THEN SetLocalParam(f, "timezone")
    ELSE SetParam(f, "timezone", self.timezone)

games_min_arguments(f) ==
    CheckMet(f, "Must provide at least one of: id, date, league, season, team, h2h, live, timezone")

\* games with the request sent before the "at least one of" check
games_SendFirst(self, a) ==
    games_min_arguments(
        Step(Step(Step(Step(Step(Step(Step(Step(Step(Enter(a),
             games_id),
             games_date),
             games_league),
             games_season),
             games_team),
             games_h2h),
             games_live),
             LAMBDA f : games_timezone(self, f)),
             LAMBDA f : get(self, "games", f)))

games(self, a) ==
    get(self, "games",
        Step(Step(Step(Step(Step(Step(Step(Step(Step(Enter(a),
             games_id),
             games_date),
             games_league),
             games_season),
             games_team),
             games_h2h),
             games_live),
             LAMBDA f : games_timezone(self, f)),
             games_min_arguments))

games_events_id(f) ==
    IF f.v.id = None THEN Raise(f, "ValueError", "id must be provided")
    ELSE SetLocalParam(Coerce(f, "id", "id must be an integer"), "id")

games_events(self, a) ==
    get(self, "games_events",
        Step(Enter(a),
             games_events_id))

games_teams_statistics_id(f) ==
    IF f.v.id = None THEN Raise(f, "ValueError", "id must be provided")
    ELSE SetLocalParam(Coerce(f, "id", "id must be an integer"), "id")

games_teams_statistics_team(f) ==
    IF f.v.team # None
    THEN SetLocalParam(Coerce(f, "team", "team must be an integer"), "team")
    ELSE f

games_teams_statistics(self, a) ==
    get(self, "games_teams_statistics",
        Step(Step(Enter(a),
             games_teams_statistics_id),
             games_teams_statistics_team))

games_players_statistics_id(f) ==
    IF f.v.id = None THEN Raise(f, "ValueError", "id must be provided")
    ELSE SetLocalParam(Coerce(f, "id", "id must be an integer"), "id")

games_players_statistics_group(f) ==
    IF f.v.group # None
    THEN EnumBlock(f, "group", PlayersStatisticsGroups,
                   "group must be one of: defensive, fumbles, interceptions, kick_returns, kicking, passing, punt_returns, punting, receiving, rushing")
    ELSE f

games_players_statistics_team(f) ==
    IF f.v.team # None
    THEN SetLocalParam(Coerce(f, "team", "team must be an integer"), "team")
    ELSE f

games_players_statistics_player(f) ==
    IF f.v.player # None
    THEN SetLocalParam(Coerce(f, "player", "player must be an integer"), "player")
    ELSE f

games_players_statistics(self, a) ==
    get(self, "games_players_statistics",
        Step(Step(Step(Step(Enter(a),
             games_players_statistics_id),
             games_players_statistics_group),
             games_players_statistics_team),
             games_players_statistics_player))

standings_league(f) ==
    IF f.v.league = None THEN Raise(f, "ValueError", "league must be provided")
    ELSE SetLocalParam(Assign(f, "league", clean_league(f.v.league)), "league")

standings_season(f) ==
    IF f.v.season = None THEN Raise(f, "ValueError", "season must be provided")
    ELSE SetLocalParam(Assign(f, "season", clean_season(f.v.season)), "season")

standings_team(f) ==
    IF f.v.team # None
    THEN SetLocalParam(Coerce(f, "team", "team must be an integer"), "team")
    ELSE f

standings_conference(f) ==
    IF f.v.conference # None
    THEN EnumBlock(f, "conference", Conferences,
                   "conference must be one of: American Football Conference, National Football Conference")
    ELSE f

standings_division(f) ==
    IF f.v.division # None
    THEN EnumBlock(f, "division", Divisions, "division must be one of: North, South, East, West")
    ELSE f

standings(self, a) ==
    get(self, "standings",
        Step(Step(Step(Step(Step(Enter(a),
             standings_league),
             standings_season),
             standings_team),
             standings_conference),
             standings_division))

standings_conferences_league(f) ==
    IF f.v.league = None THEN Raise(f, "ValueError", "league must be provided")
    ELSE SetLocalParam(Assign(f, "league", clean_league(f.v.league)), "league")

standings_conferences_season(f) ==
    IF f.v.season = None THEN Raise(f, "ValueError", "season must be provided")
    ELSE SetLocalParam(Assign(f, "season", clean_season(f.v.season)), "season")

standings_conferences(self, a) ==
    get(self, "standings_conferences",
        Step(Step(Enter(a),
             standings_conferences_league),
             standings_conferences_season))

standings_divisions_league(f) ==
    IF f.v.league = None THEN Raise(f, "ValueError", "league must be provided")
    ELSE SetLocalParam(Assign(f, "league", clean_league(f.v.league)), "league")

standings_divisions_season(f) ==
    IF f.v.season = None THEN Raise(f, "ValueError", "season must be provided")
    ELSE SetLocalParam(Assign(f, "season", clean_season(f.v.season)), "season")

standings_divisions(self, a) ==
    get(self, "standings_divisions",
        Step(Step(Enter(a),
             standings_divisions_league),
             standings_divisions_season))

odds_game(f) ==
    IF f.v.game = None THEN Raise(f, "ValueError", "game must be provided")
    ELSE SetLocalParam(Coerce(f, "game", "game must be an integer"), "game")

odds_bookmaker(f) ==
    IF f.v.bookmaker # None
    THEN SetLocalParam(Coerce(f, "bookmaker", "bookmaker must be an integer"), "bookmaker")
    ELSE f

odds_bet(f) ==
    IF f.v.bet # None
    THEN SetLocalParam(Coerce(f, "bet", "bet must be an integer"), "bet")
    ELSE f

odds(self, a) ==
    get(self, "odds",
        Step(Step(Step(Enter(a),
             odds_game),
             odds_bookmaker),
             odds_bet))

odds_bets_id(f) ==
    IF f.v.id # None
    THEN SetLocalParam(Coerce(f, "id", "id must be an integer"), "id")
    ELSE f

odds_bets_search(f) ==
    IF f.v.search # None
    THEN SetLocalParam(CheckSearch(f), "search")
    ELSE f

\* odds_bets with the "at least one of" check of the other operations
odds_bets_AtLeastOne(self, a) ==
    get(self, "odds_bets",
        Step(Step(Step(Enter(a),
             odds_bets_id),
             odds_bets_search),
             LAMBDA f : CheckMet(f, "Must provide at least one of: id, search")))

odds_bets(self, a) ==
    get(self, "odds_bets",
        Step(Step(Enter(a),
             odds_bets_id),
             odds_bets_search))

odds_bookmakers_id(f) ==
    IF f.v.id # None
    THEN SetLocalParam(Coerce(f, "id", "id must be an integer"), "id")
    ELSE f

odds_bookmakers_search(f) ==
    IF f.v.search # None
    THEN SetLocalParam(CheckSearch(f), "search")
    ELSE f

odds_bookmakers(self, a) ==
    get(self, "odds_bookmakers",
        Step(Step(Enter(a),
             odds_bookmakers_id),
             odds_bookmakers_search))

(***************************************************************************)
(* The second half of get: the response decides between the exceptions of  *)
(* exceptions.py and the normal return.                                    *)
(***************************************************************************)
\* ApiError(response=resp)
ApiError(response) ==
    [cls |-> "ApiError", message |-> "An unknown API error occurred.", response |-> response,
     has_response_errors |-> FALSE, response_errors |-> None]

\* Api401Error(response=resp) and its siblings: __init__ hands only the
\* message to ApiError.__init__, which sets self.response = None, so the
\* branch that reads the errors of the response is not taken
ApiStatusError(cls, message, response) ==
    [cls |-> cls, message |-> message, response |-> None,
     has_response_errors |-> FALSE, response_errors |-> None]

Api401Error(response) ==
    ApiStatusError("Api401Error", "API returned a 401 error. Check your API key and usage limits.",
                   response)

Api404Error(response) ==
    ApiStatusError("Api404Error", "API returned a 404 error. Check your parameters.", response)

Api429Error(response) == ApiStatusError("Api429Error", "API returned a 429 error.", response)

Api500Error(response) == ApiStatusError("Api500Error", "API returned a 500 server error.", response)

\* EXCEPTION_MAP.get(status_code, ApiError)(response=resp)
EXCEPTION_MAP(status_code, response) ==
    CASE status_code = 401 -> Api401Error(response)
      [] status_code = 404 -> Api404Error(response)
      [] status_code = 429 -> Api429Error(response)
      [] status_code = 500 -> Api500Error(response)
      [] OTHER -> ApiError(response)

\* resp.json().get("errors") is truthy
ErrorsTruthy(r) == r.errors = "present"

NoOutcome == [kind |-> "none"]

\* get without the test of the errors of the body
get_outcome_StatusOnly(r) ==
    IF r.status_code # 200
    THEN [kind |-> "transport", error |-> EXCEPTION_MAP(r.status_code, r)]
    ELSE [kind |-> "ok", value |-> r.response]

\* lines 107-112 of get, then "return resp.json()['response']" of the operation
get_outcome(r) ==
    IF r.status_code # 200
    THEN [kind |-> "transport", error |-> EXCEPTION_MAP(r.status_code, r)]
    ELSE IF ErrorsTruthy(r) THEN [kind |-> "transport", error |-> ApiError(r)]
    ELSE [kind |-> "ok", value |-> r.response]

(***************************************************************************)
(* The arguments that the callers of the model pass.                       *)
(***************************************************************************)
STR_DATE == <<"2", "0", "2", "4", "-", "0", "1", "-", "0", "3">>

STR_BADDATE == <<"J", "a", "n", " ", "3", " ", "2", "0", "2", "4">>

STR_UTC == <<"U", "T", "C">>

STR_NEW_YORK == <<"A", "m", "e", "r", "i", "c", "a", "/", "N", "e", "w", "_", "Y", "o", "r", "k">>

STR_CHICAGO == <<"A", "m", "e", "r", "i", "c", "a", "/", "C", "h", "i", "c", "a", "g", "o">>

STR_str == PyStr(<<"s", "t", "r">>)

IntArgs ==
    {None, STR_str, PyList, PyBool(TRUE)} \cup {PyIntV(n) : n \in 1..MaxId}
        \cup {PyStr(IntToStr(n)) : n \in 1..MaxId}

LeagueArgs == {None, Leagues.NFL, PyIntV(1), PyIntV(3), PyStr(<<"n", "f", "l">>)}

\* the leagues of the operations with two arguments: both members, their values
AllLeagueArgs == LeagueArgs \cup {Leagues.NCAA, PyIntV(2)}

\* the operations with five arguments or more: each is absent, valid or
\* invalid, and the arguments with more than one valid form have these forms
SomeIntArgs == {None, PyIntV(1), STR_str}

GamesLeagueArgs == {None, Leagues.NFL, PyIntV(3)}

GamesSeasonArgs == {None, PyIntV(2023), PyIntV(100)}

SeasonArgs == {None, PyIntV(2023), PyStr(<<"2", "0", "2", "3">>), PyIntV(100),
               PyStr(<<"a", "b", "c", "d">>), PyStr(<<"+", "1", "2", "3">>)}

NameArgs == {None, PyStr(<<"R", "a", "i", "d", "e", "r", "s">>)}

CodeArgs == {None, PyStr(<<"L", "V">>)}

SearchArgs == {None} \cup {PyStr(Repeat("a", n)) : n \in 0..MaxSearchLen}

DateArgs == {None, PyDatetime(2024, 1, 3), PyStr(STR_DATE), PyStr(STR_BADDATE)}

H2hArgs == {None, PyStr(<<"1", "-", "2">>), PyStr(<<"1", "-", "2", "-", "3">>),
            PyStr(<<"a", "-", "b">>), PyStr(<<"1", "-">>), PyStr(<<"1", "2">>)}

BoolArgs == {None, PyBool(TRUE), PyBool(FALSE), STR_true, STR_false,
             PyStr(<<"y", "e", "s">>)}

TimezoneArgs == {None, PyStr(STR_UTC)}

GroupArgs == {None, PlayersStatisticsGroups.PASSING, PlayersStatisticsGroups.PASSING.value,
              PyStr(<<"f", "l", "y", "i", "n", "g">>)}

ConferenceArgs == {None, Conferences.NFC, Conferences.NFC.value, PyStr(<<"n", "f", "c">>)}

DivisionArgs == {None, Divisions.EAST, Divisions.EAST.value,
                 PyStr(<<"n", "f", "c", "-", "e", "a", "s", "t">>)}

\* the values handed to _clean_season, which its callers never call with None
CleanSeasonArgs ==
    {PyIntV(2023), PyStr(<<"2", "0", "2", "3">>), PyIntV(100), PyIntV(40000),
     PyStr(<<"a", "b", "c", "d">>),
     PyStr(<<"2", "0", "2", "3", "-", "r", "e", "g", "u", "l", "a", "r">>),
     PyStr(<<"+", "1", "2", "3">>), PyStr(<<"1", "0", "0">>), PyList}

\* the values handed to _clean_league, which its callers never call with None
CleanLeagueArgs ==
    {Leagues.NFL, Leagues.NCAA, PyIntV(1), PyIntV(2), PyIntV(3), PyIntV(0),
     PyStr(<<"1">>), PyStr(<<"2">>), PyStr(<<"3">>), PyStr(<<"n", "f", "l">>)}

\* the responses of the server: a status, a body with or without errors
Responses ==
    [status_code : {200, 401, 404, 429, 500, 503}, errors : {"empty", "present"},
     response : {"payload"}]
        \cup {[status_code |-> 200, errors |-> "absent", response |-> "payload"]}

(***************************************************************************)
(* The state machine.                                                      *)
(***************************************************************************)
\* nothing is remembered yet
NoMemo == [op |-> "none"]

\* the calls of which the first is remembered: games(id=1), which sends the
\* default timezone, and games(season=2023), which validation rejects
ProbeCalls ==
    {[op |-> "games",
      args |-> [id |-> PyIntV(1), date |-> None, league |-> None, season |-> None,
                team |-> None, h2h |-> None, live |-> None, timezone |-> None]],
     [op |-> "games",
      args |-> [id |-> None, date |-> None, league |-> None, season |-> PyIntV(2023),
                team |-> None, h2h |-> None, live |-> None, timezone |-> None]]}

\* the constructions of the client: all defaults, and no default
Constructions ==
    {[api_key |-> "secret", use_rapid_api |-> FALSE, timezone |-> PyStr(STR_NEW_YORK)],
     [api_key |-> "secret", use_rapid_api |-> TRUE, timezone |-> PyStr(STR_CHICAGO)]}

\* ApiNfl(api_key, use_rapid_api, timezone)
Init ==
    /\ \E c \in Constructions :
          /\ api_key = c.api_key
          /\ api_host = IF c.use_rapid_api THEN "api-nfl-v1.p.rapidapi.com"
                        ELSE "v1.american-football.api-sports.io"
          /\ self_timezone = c.timezone
    /\ pc = "idle"
    /\ op = "none"
    /\ args = <<>>
    /\ params = <<>>
    /\ sent = <<>>
    /\ resp = None
    /\ outcome = NoOutcome
    /\ memo = NoMemo

\* a call that keeps an explicit timezone as the default of the client
Invoke_StoresTimezone(name, a, f) ==
    /\ op' = name
    /\ args' = a
    /\ params' = f.params
    /\ sent' = f.sent
    /\ resp' = None
    /\ IF f.exc # NoExc
       THEN pc' = "done" /\ outcome' = [kind |-> "invalid", exc |-> f.exc, msg |-> f.msg]
       ELSE pc' = "waiting" /\ outcome' = NoOutcome
    /\ self_timezone' = IF f.exc = NoExc /\ name = "games" /\ a.timezone # None
                        THEN a.timezone ELSE self_timezone
    /\ UNCHANGED <<api_key, api_host, memo>>

\* a call of operation name with arguments a, whose body leaves frame f:
\* either it has raised, or its request is on the way
Invoke(name, a, f) ==
    /\ op' = name
    /\ args' = a
    /\ params' = f.params
    /\ sent' = f.sent
    /\ resp' = None
    /\ IF f.exc # NoExc
       THEN pc' = "done" /\ outcome' = [kind |-> "invalid", exc |-> f.exc, msg |-> f.msg]
       ELSE pc' = "waiting" /\ outcome' = NoOutcome
    /\ UNCHANGED <<api_key, api_host, self_timezone, memo>>

\* a call of the static method name with arguments a, whose result is r:
\* it raises or returns at once, and sends nothing
Evaluate(name, a, r) ==
    /\ op' = name
    /\ args' = a
    /\ params' = <<>>
    /\ sent' = <<>>
    /\ resp' = None
    /\ pc' = "done"
    /\ outcome' = IF r.exc # NoExc THEN [kind |-> "invalid", exc |-> r.exc, msg |-> r.msg]
                  ELSE [kind |-> "ok", value |-> r.val]
    /\ UNCHANGED <<api_key, api_host, self_timezone, memo>>

CleanSeason ==
    /\ pc = "idle"
    /\ \E season \in CleanSeasonArgs :
          Evaluate("_clean_season", [season |-> season], clean_season(season))

CleanLeague ==
    /\ pc = "idle"
    /\ \E league \in CleanLeagueArgs :
          Evaluate("_clean_league", [league |-> league], clean_league(league))

NoArgs == <<>>

Status == pc = "idle" /\ Invoke("status", NoArgs, status(Self, NoArgs))

Timezone == pc = "idle" /\ Invoke("timezone", NoArgs, timezone(Self, NoArgs))

Seasons == pc = "idle" /\ Invoke("seasons", NoArgs, seasons(Self, NoArgs))

LeaguesOp ==
    /\ pc = "idle"
    /\ \E a \in [id : LeagueArgs, season : SeasonArgs, current : BoolArgs] :
          Invoke("leagues", a, leagues(Self, a))

Teams ==
    /\ pc = "idle"
    /\ \E a \in [id : IntArgs, league : LeagueArgs, season : SeasonArgs, name : NameArgs,
                    code : CodeArgs, search : SearchArgs] :
          Invoke("teams", a, teams(Self, a))

Players ==
    /\ pc = "idle"
    /\ \E a \in [id : IntArgs, name : NameArgs, team : IntArgs, season : SeasonArgs,
                 search : SearchArgs] :
          Invoke("players", a, players(Self, a))

PlayersStatistics ==
    /\ pc = "idle"
    /\ \E a \in [id : IntArgs, team : IntArgs, season : SeasonArgs] :
          Invoke("players_statistics", a, players_statistics(Self, a))

Injuries ==
    /\ pc = "idle"
    /\ \E a \in [player : IntArgs, team : IntArgs] :
          Invoke("injuries", a, injuries(Self, a))

Games ==
    /\ pc = "idle"
    /\ \E a \in [id : SomeIntArgs, date : DateArgs, league : GamesLeagueArgs,
                 season : GamesSeasonArgs,
                 team : SomeIntArgs, h2h : H2hArgs, live : BoolArgs, timezone : TimezoneArgs] :
          Invoke("games", a, games(Self, a))

GamesEvents ==
    /\ pc = "idle"
    /\ \E a \in [id : IntArgs] :
          Invoke("games_events", a, games_events(Self, a))

GamesTeamsStatistics ==
    /\ pc = "idle"
    /\ \E a \in [id : IntArgs, team : IntArgs] :
          Invoke("games_teams_statistics", a, games_teams_statistics(Self, a))

GamesPlayersStatistics ==
    /\ pc = "idle"
    /\ \E a \in [id : IntArgs, group : GroupArgs, team : IntArgs, player : IntArgs] :
          Invoke("games_players_statistics", a, games_players_statistics(Self, a))

Standings ==
    /\ pc = "idle"
    /\ \E a \in [league : LeagueArgs, season : SeasonArgs, team : SomeIntArgs,
                 conference : ConferenceArgs, division : DivisionArgs] :
          Invoke("standings", a, standings(Self, a))

StandingsConferences ==
    /\ pc = "idle"
    /\ \E a \in [league : AllLeagueArgs, season : SeasonArgs] :
          Invoke("standings_conferences", a, standings_conferences(Self, a))

StandingsDivisions ==
    /\ pc = "idle"
    /\ \E a \in [league : AllLeagueArgs, season : SeasonArgs] :
          Invoke("standings_divisions", a, standings_divisions(Self, a))

Odds ==
    /\ pc = "idle"
    /\ \E a \in [game : IntArgs, bookmaker : IntArgs, bet : IntArgs] :
          Invoke("odds", a, odds(Self, a))

OddsBets ==
    /\ pc = "idle"
    /\ \E a \in [id : IntArgs, search : SearchArgs] :
          Invoke("odds_bets", a, odds_bets(Self, a))

OddsBookmakers ==
    /\ pc = "idle"
    /\ \E a \in [id : IntArgs, search : SearchArgs] :
          Invoke("odds_bookmakers", a, odds_bookmakers(Self, a))

\* get with a retry: a response of a status other than 200 sends the
\* request again
Respond_Retry ==
    /\ pc = "waiting"
    /\ \E r \in Responses :
          /\ resp' = r
          /\ IF r.status_code # 200 /\ Len(sent) < 2
             THEN pc' = "waiting" /\ sent' = Append(sent, sent[1]) /\ outcome' = NoOutcome
             ELSE pc' = "done" /\ sent' = sent /\ outcome' = get_outcome(r)
    /\ UNCHANGED <<api_key, api_host, self_timezone, op, args, params, memo>>

\* get that drops the API key of the client after a 401
Respond_ClearsKey ==
    /\ pc = "waiting"
    /\ \E r \in Responses :
          /\ resp' = r
          /\ outcome' = get_outcome(r)
          /\ api_key' = IF r.status_code = 401 THEN "" ELSE api_key
    /\ pc' = "done"
    /\ UNCHANGED <<api_host, self_timezone, op, args, params, sent, memo>>

\* requests.get returns: get raises or returns, and the operation returns
Respond ==
    /\ pc = "waiting"
    /\ \E r \in Responses :
          /\ resp' = r
          /\ outcome' = get_outcome(r)
    /\ pc' = "done"
    /\ UNCHANGED <<api_key, api_host, self_timezone, op, args, params, sent, memo>>

\* the caller has the result or the exception; the client is ready again
Return ==
    /\ pc = "done"
    /\ pc' = "idle"
    /\ op' = "none"
    /\ args' = <<>>
    /\ params' = <<>>
    /\ sent' = <<>>
    /\ resp' = None
    /\ outcome' = NoOutcome
    /\ memo' = IF memo = NoMemo /\ [op |-> op, args |-> args] \in ProbeCalls
               THEN [op |-> op, args |-> args,
                     exc |-> IF outcome.kind = "invalid" THEN outcome.exc ELSE NoExc,
                     msg |-> IF outcome.kind = "invalid" THEN outcome.msg ELSE "",
                     params |-> params]
               ELSE memo
    /\ UNCHANGED <<api_key, api_host, self_timezone>>

Next ==
    \/ Status \/ Timezone \/ Seasons \/ LeaguesOp \/ Teams \/ Players
    \/ PlayersStatistics \/ Injuries \/ Games \/ GamesEvents
    \/ GamesTeamsStatistics \/ GamesPlayersStatistics \/ Standings
    \/ StandingsConferences \/ StandingsDivisions \/ Odds \/ OddsBets
    \/ OddsBookmakers \/ CleanSeason \/ CleanLeague \/ Respond \/ Return

Spec == Init /\ [][Next]_vars

(***************************************************************************)
(* Properties.                                                             *)
(***************************************************************************)
\* argument k of the call in progress is supplied
Supplied(k) == args[k] # None

\* every argument of the call in progress is absent
AllAbsent == \A k \in DOMAIN args : args[k] = None

\* every argument has a type that the documentation of the method names
\* (the list is the one value of the model that has not)
WellTyped == \A k \in DOMAIN args : args[k].t # "list"

\* the call in progress has ended in a validation error: an exception raised
\* by the body of the operation before any request; the exception is a
\* ValueError whenever the arguments are well typed
Rejected ==
    /\ pc = "done"
    /\ outcome.kind = "invalid"
    /\ sent = <<>>
    /\ (WellTyped => outcome.exc = "ValueError")

\* the call in progress has passed validation and sent its one request
Accepted == pc \in {"waiting", "done"} /\ outcome.kind # "invalid" /\ Len(sent) = 1

\* C1: validation runs to completion before any request.  No step ends a
\* call in a validation error when a request of that call has been sent,
\* before the step or by it; and a call whose request is out ends in the
\* return of the payload or in a transport error, never in both kinds.
C1_ValidationBeforeRequest ==
    [][/\ (outcome'.kind = "invalid" => sent = <<>> /\ sent' = <<>>)
       /\ (sent # <<>> /\ pc = "waiting" => outcome'.kind \in {"ok", "transport"} /\ sent' = sent)
       /\ (outcome'.kind = "transport" => Len(sent') = 1)]_vars

C1_Witness == op = "games" /\ outcome.kind = "invalid" /\ sent = <<>> /\ Supplied("season")

\* the operations that the specification calls multi-optional
MultiOptional ==
    {"teams", "players", "players_statistics", "injuries", "games", "odds_bets",
     "odds_bookmakers"}

\* the operations whose body has the "at least one of" check
AtLeastOneMsg ==
    [teams |-> "Must provide at least one of: id, league, season, name, code, search",
     players |-> "Must provide at least one of: id, name, team, season, search",
     players_statistics |-> "Must provide at least one of: id, team, season",
     injuries |-> "Must provide at least one of: player, team",
     games |-> "Must provide at least one of: id, date, league, season, team, h2h, live, timezone"]

\* C2 as stated: each of the seven multi-optional operations, called with
\* every argument absent, ends in a validation error and sends no request.
C2_Original == op \in MultiOptional /\ AllAbsent => Rejected

\* C2 as amended: teams, players, players_statistics, injuries and games,
\* called with every argument absent, end in the validation error "Must
\* provide at least one of: <names>" and send no request; odds_bets and
\* odds_bookmakers have no such rule and send their request.
C2_AtLeastOne ==
    /\ (op \in DOMAIN AtLeastOneMsg /\ AllAbsent =>
            Rejected /\ outcome.exc = "ValueError" /\ outcome.msg = AtLeastOneMsg[op])
    /\ (op \in {"odds_bets", "odds_bookmakers"} /\ AllAbsent => Accepted)

C2_Witness ==
    /\ op = "teams" /\ AllAbsent /\ outcome.kind = "invalid"
    /\ outcome.msg = "Must provide at least one of: id, league, season, name, code, search"

\* C3: leagues, odds_bets and odds_bookmakers called with every argument
\* absent pass validation and send exactly one request, whose query map is
\* empty; when the response is a success the call returns its payload.
C3_NoArgumentsAccepted ==
    op \in {"leagues", "odds_bets", "odds_bookmakers"} /\ AllAbsent =>
        /\ Accepted
        /\ sent[1].params = <<>>
        /\ sent[1].url.path = ENDPOINTS[op]
        /\ (pc = "done" /\ resp.status_code = 200 /\ resp.errors # "present" =>
                outcome = [kind |-> "ok", value |-> resp.response])

C3_Witness == op = "odds_bets" /\ AllAbsent /\ pc = "done" /\ outcome.kind = "ok"

\* C4: in teams, league and season are mutually required: a call with league
\* and without season, or with season and without league, ends in a
\* validation error, whatever id, name, code and search are.
C4_TeamsLeagueSeason ==
    op = "teams" /\ (Supplied("league") # Supplied("season")) => Rejected

C4_Witness ==
    /\ op = "teams" /\ Supplied("league") /\ ~Supplied("season") /\ Supplied("id")
    /\ outcome.kind = "invalid"
    /\ outcome.msg = "season must be provided if league is provided"

\* the query map of the request of the call in progress
Query == sent[1].params

\* C5: teams with a valid league and a valid season and nothing else passes
\* validation; the query map of a call of teams has exactly the supplied
\* arguments as keys, its league and season are ints; with league NFL (the
\* member or 1) and season 2023 only, it is exactly {league: 1, season: 2023}.
C5_TeamsLeagueSeasonQuery ==
    op = "teams" =>
        /\ (/\ args.league \in {Leagues.NFL, Leagues.NCAA, PyIntV(1), PyIntV(2)}
            /\ args.season \in {PyIntV(2023), PyStr(<<"2", "0", "2", "3">>)}
            /\ \A k \in {"id", "name", "code", "search"} : ~Supplied(k)
            => /\ Accepted
               /\ DOMAIN Query = {"league", "season"}
               /\ Query.league = PyIntV(IF args.league \in {Leagues.NFL, PyIntV(1)} THEN 1 ELSE 2)
               /\ Query.season = PyIntV(2023))
        /\ (/\ args.league \in {Leagues.NFL, PyIntV(1)}
            /\ args.season = PyIntV(2023)
            /\ \A k \in {"id", "name", "code", "search"} : ~Supplied(k)
            => Accepted /\ Query = ("league" :> PyIntV(1)) @@ ("season" :> PyIntV(2023)))
        /\ (sent # <<>> =>
               /\ DOMAIN Query = {k \in DOMAIN args : Supplied(k)}
               /\ \A k \in DOMAIN Query \cap {"id", "league", "season"} : Query[k].t = "int"
               /\ \A k \in DOMAIN Query \cap {"name", "code", "search"} : Query[k] = args[k])

C5_Witness ==
    /\ op = "teams" /\ args.league = Leagues.NFL /\ args.season = PyIntV(2023)
    /\ \A k \in {"id", "name", "code", "search"} : ~Supplied(k)
    /\ pc = "done" /\ outcome.kind = "ok"

\* C6: in players, team and season are mutually required: a call with team
\* and without season, or with season and without team, ends in a validation
\* error, whatever id, name and search are.
C6_PlayersTeamSeason ==
    op = "players" /\ (Supplied("team") # Supplied("season")) => Rejected

C6_Witness ==
    /\ op = "players" /\ Supplied("season") /\ ~Supplied("team") /\ Supplied("name")
    /\ outcome.kind = "invalid"
    /\ outcome.msg = "team must be provided if season is provided"

\* C7: in players_statistics no field may appear alone: a call with exactly
\* one of id, team, season ends in a validation error, and the error is not
\* that of the "at least one of" check, which the call would pass.
C7_PlayersStatisticsNotAlone ==
    op = "players_statistics" /\ Cardinality({k \in DOMAIN args : Supplied(k)}) = 1 =>
        Rejected /\ outcome.msg # "Must provide at least one of: id, team, season"

C7_Witness ==
    /\ op = "players_statistics" /\ args.id = PyIntV(1) /\ ~Supplied("team")
    /\ ~Supplied("season") /\ outcome.kind = "invalid"
    /\ outcome.msg = "team or season must be provided if id is provided"

\* the value is one that int() converts
IsInteger(v) == v # None /\ PyInt(v).exc = NoExc

\* C8 as stated: in players_statistics a call with two valid fields and the
\* third absent passes validation, for each of the pairs (id, team),
\* (id, season) and (team, season).
C8_Original ==
    op = "players_statistics" =>
        /\ (IsInteger(args.id) /\ IsInteger(args.team) /\ ~Supplied("season") => Accepted)
        /\ (IsInteger(args.id) /\ ~Supplied("team") /\ args.season = PyIntV(2023) => Accepted)
        /\ (~Supplied("id") /\ IsInteger(args.team) /\ args.season = PyIntV(2023) => Accepted)

\* C9: in games, league requires season and team requires season: a call
\* with league or team and without season ends in a validation error,
\* whatever the other arguments are.
C9_GamesLeagueTeamNeedSeason ==
    op = "games" /\ (Supplied("league") \/ Supplied("team")) /\ ~Supplied("season") => Rejected

C9_Witness ==
    /\ op = "games" /\ args.team = PyIntV(1) /\ ~Supplied("league") /\ ~Supplied("season")
    /\ Supplied("date") /\ outcome.kind = "invalid"
    /\ outcome.msg = "season must be provided if team is provided"

\* C10: in games, season may not stand alone: a call with season and without
\* id, league, team, date, h2h and live ends in a validation error, with or
\* without a timezone.
C10_GamesSeasonNotAlone ==
    /\ op = "games" /\ Supplied("season")
    /\ \A k \in {"id", "league", "team", "date", "h2h", "live"} : ~Supplied(k)
    => Rejected

C10_Witness ==
    /\ op = "games" /\ args.season = PyIntV(2023) /\ Supplied("timezone")
    /\ \A k \in {"id", "league", "team", "date", "h2h", "live"} : ~Supplied(k)
    /\ outcome.kind = "invalid"
    /\ outcome.msg = "one of id, league, team, date, h2h, or live must be provided if season is provided"

\* every argument of the call in progress but those of the set ks is absent
OnlySupplied(ks) == \A k \in DOMAIN args \ ks : args[k] = None

\* C11 as stated: in games, live true (the boolean or "true") is sent as
\* "all", and games(live=True) sends exactly {live: "all", timezone:
\* <default>}; live false (the boolean or "false") leaves the query map
\* without a live key, and with nothing else supplied the call ends in a
\* validation error.
C11_Original ==
    op = "games" =>
        /\ (args.live \in {PyBool(TRUE), STR_true} /\ sent # <<>> =>
                "live" \in DOMAIN Query /\ Query.live = STR_all)
        /\ (args.live = PyBool(TRUE) /\ OnlySupplied({"live"}) =>
                Accepted /\ Query = ("live" :> STR_all) @@ ("timezone" :> self_timezone))
        /\ (args.live \in {PyBool(FALSE), STR_false} /\ sent # <<>> =>
                "live" \notin DOMAIN Query)
        /\ (args.live \in {PyBool(FALSE), STR_false} /\ OnlySupplied({"live"}) => Rejected)

H2hWellFormed(v) ==
    /\ v.t = "str"
    /\ Len(Split(v.s, "-")) = 2
    /\ \A k \in 1..2 : ParseInt(Split(v.s, "-")[k]).ok

H2hMsg == "h2h must be two team IDs separated by a dash (e.g. 1-2)"

\* C13: in games, an h2h that splits on "-" into exactly two tokens that
\* each parse as an integer passes the h2h check, and is sent unchanged
\* ("1-2" alone gives h2h: "1-2"); an h2h of any other shape ("1-2-3",
\* "a-b", "1-", "12") ends in a validation error.
C13_GamesH2h ==
    op = "games" /\ Supplied("h2h") =>
        /\ (~H2hWellFormed(args.h2h) => Rejected)
        /\ (args.h2h \in {PyStr(<<"1", "-", "2", "-", "3">>), PyStr(<<"a", "-", "b">>),
                            PyStr(<<"1", "-">>), PyStr(<<"1", "2">>)} => Rejected)
        /\ (H2hWellFormed(args.h2h) => ~(outcome.kind = "invalid" /\ outcome.msg = H2hMsg))
        /\ (H2hWellFormed(args.h2h) /\ sent # <<>> =>
                "h2h" \in DOMAIN Query /\ Query.h2h = args.h2h)
        /\ (args.h2h = PyStr(<<"1", "-", "2">>) /\ OnlySupplied({"h2h"}) =>
                /\ Accepted
                /\ Query = ("h2h" :> PyStr(<<"1", "-", "2">>)) @@ ("timezone" :> self_timezone))

C13_Witness ==
    /\ op = "games" /\ args.h2h = PyStr(<<"a", "-", "b">>) /\ OnlySupplied({"h2h"})
    /\ outcome.kind = "invalid" /\ outcome.msg = H2hMsg

\* the call in progress has returned value v without any request
Returned(v) == pc = "done" /\ outcome = [kind |-> "ok", value |-> v] /\ sent = <<>>

\* the call in progress has raised ValueError(msg) without any request
RaisedValueError(msg) ==
    /\ pc = "done" /\ sent = <<>>
    /\ outcome = [kind |-> "invalid", exc |-> "ValueError", msg |-> msg]

\* C14: _clean_season succeeds exactly when str(value) has exactly 4
\* characters and int(value) succeeds, and then returns that int ("2023"
\* gives 2023); in every other case (100, 40000, "abcd", "2023-regular") it
\* raises ValueError("season must be a valid year").
C14_CleanSeason ==
    op = "_clean_season" =>
        /\ (Len(PyStrOf(args.season)) = 4 /\ PyInt(args.season).exc = NoExc =>
                Returned(PyIntV(PyInt(args.season).val)))
        /\ (Len(PyStrOf(args.season)) # 4 \/ PyInt(args.season).exc # NoExc =>
                RaisedValueError("season must be a valid year"))
        /\ (args.season \in {PyIntV(2023), PyStr(<<"2", "0", "2", "3">>)} =>
                Returned(PyIntV(2023)))
        /\ (args.season \in {PyIntV(100), PyIntV(40000), PyStr(<<"a", "b", "c", "d">>),
               PyStr(<<"2", "0", "2", "3", "-", "r", "e", "g", "u", "l", "a", "r">>)} =>
                RaisedValueError("season must be a valid year"))

C14_Witness ==
    /\ op = "_clean_season" /\ args.season = PyStr(<<"a", "b", "c", "d">>)
    /\ RaisedValueError("season must be a valid year")

\* C15 as stated: _clean_league normalizes the member NFL and the int 1 to
\* 1, the member NCAA and the int 2 to 2, and fails with a validation error
\* for any other value.
C15_Original ==
    op = "_clean_league" =>
        /\ (args.league \in {Leagues.NFL, PyIntV(1)} => Returned(PyIntV(1)))
        /\ (args.league \in {Leagues.NCAA, PyIntV(2)} => Returned(PyIntV(2)))
        /\ (args.league \notin {Leagues.NFL, PyIntV(1), Leagues.NCAA, PyIntV(2)} =>
                pc = "done" /\ outcome.kind = "invalid")

\* C15 as amended: _clean_league normalizes the member NFL, the int 1 and
\* the string "1" to 1, the member NCAA, the int 2 and the string "2" to 2;
\* an int or a numeric string of another value fails with ValueError("league
\* must be a valid league: ..."), a non-numeric string with ValueError(
\* "league must be an integer").
C15_CleanLeague ==
    op = "_clean_league" =>
        /\ (args.league \in {Leagues.NFL, PyIntV(1), PyStr(<<"1">>)} => Returned(PyIntV(1)))
        /\ (args.league \in {Leagues.NCAA, PyIntV(2), PyStr(<<"2">>)} => Returned(PyIntV(2)))
        /\ (args.league \in {PyIntV(3), PyIntV(0), PyStr(<<"3">>)} =>
                RaisedValueError("league must be a valid league: 1 for NFL, 2 for NCAA"))
        /\ (args.league = PyStr(<<"n", "f", "l">>) =>
                RaisedValueError("league must be an integer"))
        /\ (outcome.kind = "ok" => outcome.value \in {PyIntV(1), PyIntV(2)})

C15_Witness == op = "_clean_league" /\ args.league = PyStr(<<"1">>) /\ Returned(PyIntV(1))

\* the integer-typed arguments of the operations
IntegerFields ==
    [teams |-> {"id"}, players |-> {"id", "team"}, players_statistics |-> {"id", "team"},
     injuries |-> {"player", "team"}, games |-> {"id", "team"}, games_events |-> {"id"},
     games_teams_statistics |-> {"id", "team"},
     games_players_statistics |-> {"id", "team", "player"}, standings |-> {"team"},
     odds |-> {"game", "bookmaker", "bet"}, odds_bets |-> {"id"}, odds_bookmakers |-> {"id"}]

\* the value is an int or a string that represents an integer
IsIntLike(v) == v.t = "int" \/ (v.t = "str" /\ ParseInt(v.s).ok)

\* C16 as stated: a supplied integer-typed argument that is an int or a
\* string representing an integer is sent as that int; any other value (a
\* non-numeric string, a boolean, a list) ends the call in a ValueError
\* before any request, never in another kind of error and never in a sent,
\* silently converted value.
C16_Original ==
    op \in DOMAIN IntegerFields =>
        \A k \in IntegerFields[op] :
            Supplied(k) =>
                /\ (IsIntLike(args[k]) /\ sent # <<>> =>
                        k \in DOMAIN Query /\ Query[k] = PyIntV(PyInt(args[k]).val))
                /\ (~IsIntLike(args[k]) =>
                        /\ pc = "done" /\ sent = <<>>
                        /\ outcome.kind = "invalid" /\ outcome.exc = "ValueError")

\* the enumerated arguments of the operations, with their Enum classes
EnumFields ==
    [games_players_statistics |-> [group |-> PlayersStatisticsGroups],
     standings |-> [conference |-> Conferences, division |-> Divisions]]

\* the message of the membership check of each enumerated argument
EnumMsg ==
    [group |-> "group must be one of: defensive, fumbles, interceptions, kick_returns, kicking, passing, punt_returns, punting, receiving, rushing",
     conference |-> "conference must be one of: American Football Conference, National Football Conference",
     division |-> "division must be one of: North, South, East, West"]

\* the raw value of an enumerated argument: the .value of a member, or the
\* value itself
Raw(v) == IF v.t = "enum" THEN v.value ELSE v

\* the arguments that the operation checks before argument k are valid
EarlierValid(k) ==
    CASE k = "group" -> IsIntLike(args.id)
      [] k = "conference" ->
            /\ op = "standings"
            /\ clean_league(args.league).exc = NoExc /\ args.season # None
            /\ clean_season(args.season).exc = NoExc
            /\ (Supplied("team") => IsIntLike(args.team))
      [] k = "division" ->
            /\ op = "standings"
            /\ clean_league(args.league).exc = NoExc /\ args.season # None
            /\ clean_season(args.season).exc = NoExc
            /\ (Supplied("team") => IsIntLike(args.team))
            /\ (Supplied("conference") => Raw(args.conference) \in Values(Conferences))

\* C17: for group (games_players_statistics), conference and division
\* (standings), a member and its raw value are treated identically: the
\* outcome depends on the raw value only, which is what the query map
\* carries; a raw value outside the values of the enumeration ends in a
\* validation error, which lists the allowed values when the arguments
\* checked before it are valid; group "passing" with a valid id is accepted.
C17_EnumArguments ==
    /\ op \in DOMAIN EnumFields =>
          \A k \in DOMAIN EnumFields[op] :
              Supplied(k) =>
                  /\ (Raw(args[k]) \notin Values(EnumFields[op][k]) => Rejected)
                  /\ (Raw(args[k]) \notin Values(EnumFields[op][k]) /\ EarlierValid(k) =>
                          outcome.msg = EnumMsg[k])
                  /\ (Raw(args[k]) \in Values(EnumFields[op][k]) =>
                          ~(outcome.kind = "invalid" /\ outcome.msg = EnumMsg[k]))
                  /\ (sent # <<>> =>
                          /\ k \in DOMAIN Query /\ Query[k] = Raw(args[k])
                          /\ Query[k].t = "str")
    /\ (op = "games_players_statistics" /\ args.id = PyIntV(1) /\ OnlySupplied({"id", "group"}) =>
          /\ (args.group \in {PlayersStatisticsGroups.PASSING, PyStr(<<"p", "a", "s", "s", "i", "n", "g">>)} =>
                 /\ Accepted
                 /\ Query = ("id" :> PyIntV(1)) @@ ("group" :> PyStr(<<"p", "a", "s", "s", "i", "n", "g">>)))
          /\ (args.group = PyStr(<<"f", "l", "y", "i", "n", "g">>) =>
                 Rejected /\ outcome.msg = EnumMsg.group))
    /\ (op = "standings" /\ args.conference = PyStr(<<"n", "f", "c">>) => Rejected)
    /\ (op = "standings" /\ args.division = PyStr(<<"n", "f", "c", "-", "e", "a", "s", "t">>) =>
          Rejected)

C17_Witness ==
    /\ op = "games_players_statistics" /\ args.group = PlayersStatisticsGroups.PASSING
    /\ args.id = PyIntV(1) /\ pc = "done" /\ outcome.kind = "ok"
    /\ Query.group = PyStr(<<"p", "a", "s", "s", "i", "n", "g">>)

\* the operations that take a search argument
SearchOps == {"teams", "players", "odds_bets", "odds_bookmakers"}

SearchMsg == "search must be at least 3 characters"

\* C18: in teams, players, odds_bets and odds_bookmakers a supplied search
\* of fewer than 3 characters ends in a validation error, whatever the other
\* arguments are (and alone, in the error of the length check); a search of
\* 3 characters or more passes the length check, is sent unchanged whenever
\* the call sends its request, and alone is accepted.
C18_SearchLength ==
    op \in SearchOps /\ Supplied("search") =>
        /\ (Len(args.search.s) < 3 => Rejected)
        /\ (Len(args.search.s) < 3 /\ OnlySupplied({"search"}) => RaisedValueError(SearchMsg))
        /\ (Len(args.search.s) >= 3 => ~(outcome.kind = "invalid" /\ outcome.msg = SearchMsg))
        /\ (Len(args.search.s) >= 3 /\ sent # <<>> =>
                "search" \in DOMAIN Query /\ Query.search = args.search)
        /\ (Len(args.search.s) >= 3 /\ OnlySupplied({"search"}) =>
                Accepted /\ Query = ("search" :> args.search))

C18_Witness ==
    /\ op = "odds_bookmakers" /\ Supplied("search") /\ Len(args.search.s) = 2
    /\ args.id = PyIntV(1) /\ RaisedValueError(SearchMsg)

\* the arguments that the operations require unconditionally
Required ==
    [standings |-> {"league", "season"}, standings_conferences |-> {"league", "season"},
     standings_divisions |-> {"league", "season"}, odds |-> {"game"},
     games_events |-> {"id"}, games_teams_statistics |-> {"id"},
     games_players_statistics |-> {"id"}]

\* the message that names the missing field k
MissingMsg ==
    [league |-> "league must be provided", season |-> "season must be provided",
     game |-> "game must be provided", id |-> "id must be provided"]

\* C19 as stated: standings, standings_conferences and standings_divisions
\* without league or without season, odds without game, and games_events,
\* games_teams_statistics and games_players_statistics without id end in a
\* validation error that names a missing required field, whatever the other
\* arguments are.
C19_Original ==
    op \in DOMAIN Required /\ (\E k \in Required[op] : ~Supplied(k)) =>
        /\ Rejected
        /\ \E k \in Required[op] : ~Supplied(k) /\ outcome.msg = MissingMsg[k]

\* the class of the exception that get raises for a status other than 200
KindOfStatus(status_code) ==
    CASE status_code = 401 -> "Api401Error"
      [] status_code = 404 -> "Api404Error"
      [] status_code = 429 -> "Api429Error"
      [] status_code = 500 -> "Api500Error"
      [] OTHER -> "ApiError"

\* C20: once the response of a request is in, the call has succeeded, with
\* the payload of the response, exactly when the status is 200 and the body
\* has no truthy errors; a status other than 200 has raised the exception
\* class of that status (401, 404, 429 and 500 have four distinct classes,
\* every other status ApiError); a status 200 with truthy errors has raised
\* ApiError.
C20_Transport ==
    pc = "done" /\ resp # None =>
        /\ outcome.kind \in {"ok", "transport"}
        /\ (outcome.kind = "ok" <=> resp.status_code = 200 /\ resp.errors # "present")
        /\ (outcome.kind = "ok" => outcome.value = resp.response)
        /\ (resp.status_code # 200 =>
                outcome.kind = "transport" /\ outcome.error.cls = KindOfStatus(resp.status_code))
        /\ (resp.status_code = 200 /\ resp.errors = "present" =>
                outcome.kind = "transport" /\ outcome.error.cls = "ApiError")
        /\ Cardinality({KindOfStatus(c) : c \in {401, 404, 429, 500, 503}}) = 5

C20_Witness ==
    /\ pc = "done" /\ resp # None /\ resp.status_code = 200 /\ resp.errors = "present"
    /\ outcome.kind = "transport" /\ outcome.error.cls = "ApiError"

\* C21 as stated: every transport error that get raises, of the four status
\* classes and of the generic class, carries the response that it was raised
\* for, and with it the errors of the body of that response when the body
\* has errors.
C21_Original ==
    pc = "done" /\ outcome.kind = "transport" =>
        /\ outcome.error.response = resp
        /\ (resp.errors = "present" =>
                outcome.error.has_response_errors \/ outcome.error.response = resp)

\* C22: a call sends at most one request.  The step that takes the response
\* of the request ends the call, in the payload or in a transport error,
\* and sends nothing; a call that has ended in a transport error keeps that
\* error as its outcome and sends nothing more: its only step is the return
\* to the caller.
C22_NoRetry ==
    [][/\ Len(sent') <= 1
       /\ (pc = "waiting" => pc' = "done" /\ sent' = sent /\ outcome' = get_outcome(resp'))
       /\ (pc = "done" /\ outcome.kind = "transport" =>
               pc' = "idle" /\ sent' = <<>> /\ outcome' = NoOutcome)
       /\ (outcome'.kind = "transport" => pc = "waiting" /\ Len(sent) = 1)]_vars

C22_Witness ==
    /\ pc = "done" /\ outcome.kind = "transport" /\ Len(sent) = 1
    /\ resp.status_code = 500 /\ outcome.error.cls = "Api500Error"

\* C23 as stated: in every query map that an operation passes to the
\* transport every value is an int or a string; none is a native boolean
\* and none is None.
C23_Original ==
    sent # <<>> => \A k \in DOMAIN Query : Query[k].t \in {"int", "str"}

\* C24: validation is deterministic and idempotent.  A call with the same
\* operation and the same arguments as a remembered earlier call of the
\* same client has the same outcome of validation, whatever calls were made
\* in between: the same validation error, or the same query map, sent once.
C24_Idempotent ==
    memo # NoMemo /\ pc # "idle" /\ op = memo.op /\ args = memo.args =>
        IF memo.exc # NoExc
        THEN /\ pc = "done" /\ sent = <<>>
             /\ outcome = [kind |-> "invalid", exc |-> memo.exc, msg |-> memo.msg]
        ELSE /\ outcome.kind # "invalid"
             /\ Len(sent) = 1 /\ Query = memo.params /\ params = memo.params

C24_Witness ==
    /\ memo # NoMemo /\ memo.exc = NoExc /\ pc = "waiting"
    /\ op = memo.op /\ args = memo.args
    /\ Query = ("id" :> PyIntV(1)) @@ ("timezone" :> self_timezone)

\* the configurations that the constructor can leave
Configured ==
    \E c \in Constructions :
        /\ api_key = c.api_key
        /\ api_host = (IF c.use_rapid_api THEN "api-nfl-v1.p.rapidapi.com"
                       ELSE "v1.american-football.api-sports.io")
        /\ self_timezone = c.timezone

\* C25: the configuration of the client (API key, host, default timezone)
\* is what the constructor set, and no step of any call changes it, whether
\* the call ends in success, in a validation error or in a transport error;
\* games with an explicit timezone sends that timezone and leaves the
\* default alone.
C25_ConfigurationFixed ==
    [][/\ api_key' = api_key /\ api_host' = api_host /\ self_timezone' = self_timezone
       /\ Configured /\ Configured'
       /\ (op' = "games" /\ pc' = "waiting" /\ args'.timezone # None =>
               sent'[1].params.timezone = args'.timezone /\ self_timezone' # args'.timezone)]_vars

C25_Witness ==
    /\ op = "games" /\ args.timezone = PyStr(STR_UTC) /\ pc = "done" /\ outcome.kind = "ok"
    /\ Query.timezone = PyStr(STR_UTC) /\ self_timezone = PyStr(STR_NEW_YORK)

\* C26 as stated: in games, a call whose only supplied arguments are a valid
\* season and a false live (the boolean or "false"), with or without a
\* timezone, ends in a validation error, like a call with season alone.
C26_Original ==
    /\ op = "games" /\ args.season = PyIntV(2023)
    /\ args.live \in {PyBool(FALSE), STR_false}
    /\ OnlySupplied({"season", "live", "timezone"})
    => Rejected

\* C27 as stated: whenever _clean_season succeeds its result is an integer
\* between 1000 and 9999, and so is every season of every query map that an
\* operation sends.
C27_Original ==
    /\ (op = "_clean_season" /\ pc = "done" /\ outcome.kind = "ok" =>
            outcome.value.t = "int" /\ outcome.value.i \in 1000..9999)
    /\ (sent # <<>> /\ "season" \in DOMAIN Query =>
            Query.season.t = "int" /\ Query.season.i \in 1000..9999)

====
